---- MODULE Spec2Model ----
(***************************************************************************)
(* gh-watcher (bot.py): the snapshot / diff / notify pipeline with its     *)
(* persisted, ETag-aware state.                                            *)
(*                                                                         *)
(* Python values are modelled as follows.                                  *)
(*   - A dict is an insertion-ordered sequence of [k, v] pairs with        *)
(*     distinct keys (Python dicts iterate in insertion order).            *)
(*   - A dict key is typed: <<"int", n>> is the integer n and <<"str", n>> *)
(*     is the decimal string of n.  The two are different keys, as in      *)
(*     Python (10 != "10").                                                *)
(*   - None is the string "None"; an ETag is an opaque string.             *)
(*   - The pass-through fields of a release (tag_name, name, html_url,     *)
(*     published_at) and of an asset (browser_download_url) are copied     *)
(*     unchanged by every function; tag_name stands for all of them.       *)
(***************************************************************************)
EXTENDS Integers, Sequences, FiniteSets, TLC

(***************************************************************************)
(* Bounds of the upstream universe.                                        *)
(***************************************************************************)
MaxRel == 2      \* release ids are 1..MaxRel
MaxAsset == 2    \* asset ids are 1..MaxAsset
MaxDl == 1       \* download counts are 0..MaxDl
MaxPoll == 2     \* POLL_INTERVAL is 0..MaxPoll seconds
MaxCalls == 3    \* the first MaxCalls calls of process_repo are recorded

None == "None"
ETags == {"W/1"}
Kinds == {"new_release", "new_asset", "dl_increase"}

IntKey(n) == <<"int", n>>
StrKey(n) == <<"str", n>>
NoKey == <<"none", 0>>

\* str(x) on a key value
Str(k) == <<"str", k[2]>>

(***************************************************************************)
(* Insertion-ordered dicts.                                                *)
(***************************************************************************)
EmptyDict == <<>>
Keys(d) == {d[i].k : i \in DOMAIN d}
Has(d, key) == \E i \in DOMAIN d : d[i].k = key
Get(d, key) == d[CHOOSE i \in DOMAIN d : d[i].k = key].v
\* d[key] = val : overwrite in place, or insert at the end
Put(d, key, val) ==
    IF Has(d, key)
    THEN [i \in DOMAIN d |-> IF d[i].k = key THEN [k |-> key, v |-> val] ELSE d[i]]
    ELSE Append(d, [k |-> key, v |-> val])

RECURSIVE Concat(_)
Concat(ss) == IF ss = <<>> THEN <<>> ELSE Head(ss) \o Concat(Tail(ss))

(***************************************************************************)
(* State of the program.                                                   *)
(*   configuration (module globals read from the environment), the state  *)
(*   directory, the locals of the process_repo call in progress, and the   *)
(*   position of main_loop with the shutdown flag.                         *)
(***************************************************************************)
VARIABLES
    REPOS,                  \* configured repository identifiers (sequences of characters)
    POLL_INTERVAL,          \* seconds between passes, 0 for a single pass
    NOTIFY_ON,              \* interested event kinds
    SKIP_EXISTING_ON_INIT,
    INCLUDE_PRERELEASE,
    INCLUDE_DRAFT,
    ONLY_LATEST,
    inc_re,                 \* [set, matches]: compiled include pattern, or not set
    exc_re,                 \* [set, matches]: compiled exclude pattern, or not set
    files,                  \* STATE_DIR: path -> file
    pc,                     \* position of the process_repo call
    repo,                   \* its argument
    state,                  \* its locals ...
    is_first_run,
    status,
    new_etag,
    data,
    snapshot,
    events,
    ev_i,                   \* index of the event the for loop is at
    attempts,               \* calls of format_and_send_event made by this call
    failed,                 \* how many of the calls raised
    result,                 \* how the call returned
    shutdown,               \* the flag _sig_handler sets
    mpc,                    \* position of main_loop
    ri,                     \* index in REPOS the for loop of main_loop is at
    slept,                  \* seconds slept since the last pass
    calls,                  \* arguments of the process_repo calls made, in order
    announced               \* release key -> new_release events returned for it so far

config == <<REPOS, POLL_INTERVAL, NOTIFY_ON, SKIP_EXISTING_ON_INIT, INCLUDE_PRERELEASE,
            INCLUDE_DRAFT, ONLY_LATEST, inc_re, exc_re>>
locals == <<pc, repo, state, is_first_run, status, new_etag, data, snapshot,
            events, ev_i, attempts, failed, result>>
loop == <<shutdown, mpc, ri, slept, calls>>
vars == <<config, files, locals, loop, announced>>

(***************************************************************************)
(* _state_path, load_state, save_state and the JSON conversion.            *)
(***************************************************************************)
\* repo.replace('/', '__') + ".json" under STATE_DIR
_state_path(r) ==
    Concat([i \in DOMAIN r |-> IF r[i] = "/" THEN <<"_", "_">> ELSE <<r[i]>>])
        \o <<".json">>

\* json.dumps turns every dict key into a string (an int key n becomes "n")
JsonKey(key) == Str(key)

\* A JSON object: the pairs of the dict in order, keys converted.
DumpsAssets(d) == [i \in DOMAIN d |-> [k |-> JsonKey(d[i].k), v |-> d[i].v]]
DumpsRelease(rel) == [rel EXCEPT !.assets = DumpsAssets(@)]
DumpsReleases(d) ==
    [i \in DOMAIN d |-> [k |-> JsonKey(d[i].k), v |-> DumpsRelease(d[i].v)]]

\* json.loads of an object: pairs inserted in order, a repeated key overwrites
RECURSIVE LoadsAssets(_, _)
LoadsAssets(o, acc) ==
    IF o = <<>> THEN acc
    ELSE LoadsAssets(Tail(o), Put(acc, Head(o).k, Head(o).v))
LoadsRelease(doc) == [doc EXCEPT !.assets = LoadsAssets(@, EmptyDict)]
RECURSIVE LoadsReleases(_, _)
LoadsReleases(o, acc) ==
    IF o = <<>> THEN acc
    ELSE LoadsReleases(Tail(o), Put(acc, Head(o).k, LoadsRelease(Head(o).v)))

\* json.dumps(state, ensure_ascii=False, indent=2)
json_dumps(st) ==
    [etag |-> st.etag, releases |-> DumpsReleases(st.releases)]
\* json.loads(text)
json_loads(doc) ==
    [etag |-> doc.etag, releases |-> LoadsReleases(doc.releases, EmptyDict)]

DefaultState == [etag |-> None, releases |-> EmptyDict]
NoFile == [exists |-> FALSE, parses |-> FALSE, doc |-> json_dumps(DefaultState)]
FileOf(doc) == [exists |-> TRUE, parses |-> TRUE, doc |-> doc]
\* a file whose text json.loads rejects (write_text cut short by a crash, or
\* damage from outside); doc stands for the text that is left
Truncated ==
    [exists |-> TRUE, parses |-> FALSE,
     doc |-> [etag |-> CHOOSE e \in ETags : TRUE, releases |-> <<>>]]

\* faulty variant: the text of an existing file is used whether or not it parses
load_state_Unchecked(fs, r) ==
    LET p == fs[_state_path(r)]
    IN  IF p.exists THEN json_loads(p.doc) ELSE DefaultState

load_state(fs, r) ==
    LET p == fs[_state_path(r)]
    IN  IF p.exists /\ p.parses THEN json_loads(p.doc) ELSE DefaultState

save_state(fs, r, st) ==
    [fs EXCEPT ![_state_path(r)] = FileOf(json_dumps(st))]

(***************************************************************************)
(* summarize_release, build_snapshot                                       *)
(***************************************************************************)
Search(re, name) == name \in re.matches

RECURSIVE asset_info(_, _)
asset_info(assets, acc) ==
    IF assets = <<>> THEN acc
    ELSE LET a == Head(assets)
         IN  IF inc_re.set /\ ~Search(inc_re, a.name) THEN asset_info(Tail(assets), acc)
             ELSE IF exc_re.set /\ Search(exc_re, a.name) THEN asset_info(Tail(assets), acc)
             ELSE asset_info(Tail(assets),
                             Put(acc, IntKey(a.id),
                                 [name |-> a.name, download_count |-> a.download_count]))

summarize_release(rel) ==
    [id |-> rel.id, tag_name |-> rel.tag_name, draft |-> rel.draft,
     prerelease |-> rel.prerelease, assets |-> asset_info(rel.assets, EmptyDict)]

\* faulty variant: the prerelease test is reached only when drafts are included
RECURSIVE snapshot_of_DraftFirst(_, _)
snapshot_of_DraftFirst(rels, acc) ==
    IF rels = <<>> THEN acc
    ELSE LET rel == Head(rels)
             s == summarize_release(rel)
         IN  IF ~INCLUDE_DRAFT
             THEN IF rel.draft THEN snapshot_of_DraftFirst(Tail(rels), acc)
                  ELSE snapshot_of_DraftFirst(Tail(rels), Put(acc, Str(IntKey(s.id)), s))
             ELSE IF ~INCLUDE_PRERELEASE /\ rel.prerelease
                  THEN snapshot_of_DraftFirst(Tail(rels), acc)
                  ELSE snapshot_of_DraftFirst(Tail(rels), Put(acc, Str(IntKey(s.id)), s))

RECURSIVE snapshot_of(_, _)
snapshot_of(rels, acc) ==
    IF rels = <<>> THEN acc
    ELSE LET rel == Head(rels)
         IN  IF ~INCLUDE_DRAFT /\ rel.draft THEN snapshot_of(Tail(rels), acc)
             ELSE IF ~INCLUDE_PRERELEASE /\ rel.prerelease THEN snapshot_of(Tail(rels), acc)
             ELSE LET s == summarize_release(rel)
                  IN  snapshot_of(Tail(rels), Put(acc, Str(IntKey(s.id)), s))

\* api_data is [shape, items]: a single release record (shape "dict", one item)
\* or a list of records (shape "list")
build_snapshot(api_data) == snapshot_of(api_data.items, EmptyDict)

(***************************************************************************)
(* detect_changes                                                          *)
(* An event is the dict the code appends; rel_id and asset_id name the     *)
(* snapshot entries its "release" and "asset" values are (the code holds   *)
(* references to them).  new_release has no asset (NoKey, NoAsset), and    *)
(* only dl_increase carries delta/from/to (0 otherwise).                   *)
(***************************************************************************)
NoAsset == [name |-> None, download_count |-> 0]

Event(type, rel_id, rel, asset_id, asset, from, to) ==
    [type |-> type, rel_id |-> rel_id, release |-> rel, asset_id |-> asset_id,
     asset |-> asset, delta |-> to - from, from |-> from, to |-> to]

\* if "new_release" in NOTIFY_ON: ...
new_release_pass(old_rels, new) ==
    Concat([i \in DOMAIN new |->
        IF ~Has(old_rels, new[i].k)
        THEN <<Event("new_release", new[i].k, new[i].v, NoKey, NoAsset, 0, 0)>>
        ELSE <<>>])

\* faulty variant: every asset of a known release is reported
new_asset_pass_AllAssets(old_rels, new) ==
    Concat([i \in DOMAIN new |->
        LET rel == new[i].v
        IN  IF ~Has(old_rels, new[i].k) THEN <<>>
            ELSE Concat([j \in DOMAIN rel.assets |->
                     <<Event("new_asset", new[i].k, rel, rel.assets[j].k,
                             rel.assets[j].v, 0, 0)>>])])

\* faulty variant: a release missing from the previous state counts as one without assets
new_asset_pass_NewReleases(old_rels, new) ==
    Concat([i \in DOMAIN new |->
        LET rel == new[i].v
            old_assets == IF Has(old_rels, new[i].k)
                          THEN Get(old_rels, new[i].k).assets ELSE EmptyDict
        IN  Concat([j \in DOMAIN rel.assets |->
                IF ~Has(old_assets, rel.assets[j].k)
                THEN <<Event("new_asset", new[i].k, rel, rel.assets[j].k,
                             rel.assets[j].v, 0, 0)>>
                ELSE <<>>])])

\* if "new_asset" in NOTIFY_ON: ...
new_asset_pass(old_rels, new) ==
    Concat([i \in DOMAIN new |->
        LET rel == new[i].v
        IN  IF ~Has(old_rels, new[i].k) THEN <<>>       \* if not old_rel: continue
            ELSE LET old_assets == Get(old_rels, new[i].k).assets
                 IN  Concat([j \in DOMAIN rel.assets |->
                         IF ~Has(old_assets, rel.assets[j].k)
                         THEN <<Event("new_asset", new[i].k, rel, rel.assets[j].k,
                                      rel.assets[j].v, 0, 0)>>
                         ELSE <<>>])])

\* faulty variant: a missing asset or release counts from -1
old_dl_of_Missing(old_rels, rel_id, asset_id) ==
    IF Has(old_rels, rel_id) /\ Has(Get(old_rels, rel_id).assets, asset_id)
    THEN Get(Get(old_rels, rel_id).assets, asset_id).download_count
    ELSE -1

\* old_dl: 0 if the asset or the release is new
old_dl_of(old_rels, rel_id, asset_id) ==
    IF Has(old_rels, rel_id) /\ Has(Get(old_rels, rel_id).assets, asset_id)
    THEN Get(Get(old_rels, rel_id).assets, asset_id).download_count
    ELSE 0

\* faulty variant: an asset that is not in the previous release is skipped
dl_increase_pass_KnownOnly(old_rels, new) ==
    Concat([i \in DOMAIN new |->
        LET rel == new[i].v
        IN  Concat([j \in DOMAIN rel.assets |->
                LET old_dl == old_dl_of(old_rels, new[i].k, rel.assets[j].k)
                    new_dl == rel.assets[j].v.download_count
                    known == /\ Has(old_rels, new[i].k)
                             /\ Has(Get(old_rels, new[i].k).assets, rel.assets[j].k)
                IN  IF known /\ new_dl > old_dl
                    THEN <<Event("dl_increase", new[i].k, rel, rel.assets[j].k,
                                 rel.assets[j].v, old_dl, new_dl)>>
                    ELSE <<>>])])

\* faulty variant: new_dl >= old_dl
dl_increase_pass_NotLess(old_rels, new) ==
    Concat([i \in DOMAIN new |->
        LET rel == new[i].v
        IN  Concat([j \in DOMAIN rel.assets |->
                LET old_dl == old_dl_of(old_rels, new[i].k, rel.assets[j].k)
                    new_dl == rel.assets[j].v.download_count
                IN  IF new_dl >= old_dl
                    THEN <<Event("dl_increase", new[i].k, rel, rel.assets[j].k,
                                 rel.assets[j].v, old_dl, new_dl)>>
                    ELSE <<>>])])

\* if "dl_increase" in NOTIFY_ON: ...
dl_increase_pass(old_rels, new) ==
    Concat([i \in DOMAIN new |->
        LET rel == new[i].v
        IN  Concat([j \in DOMAIN rel.assets |->
                LET old_dl == old_dl_of(old_rels, new[i].k, rel.assets[j].k)
                    new_dl == rel.assets[j].v.download_count
                IN  IF new_dl > old_dl
                    THEN <<Event("dl_increase", new[i].k, rel, rel.assets[j].k,
                                 rel.assets[j].v, old_dl, new_dl)>>
                    ELSE <<>>])])

\* faulty variant: the dl_increase pass is nested in the new_asset pass
detect_changes_Nested(old, new) ==
    LET old_rels == old.releases
    IN  (IF "new_release" \in NOTIFY_ON THEN new_release_pass(old_rels, new) ELSE <<>>)
        \o (IF "new_asset" \in NOTIFY_ON
            THEN new_asset_pass(old_rels, new)
                 \o (IF "dl_increase" \in NOTIFY_ON
                     THEN dl_increase_pass(old_rels, new) ELSE <<>>)
            ELSE <<>>)

detect_changes(old, new) ==
    LET old_rels == old.releases
    IN  (IF "new_release" \in NOTIFY_ON THEN new_release_pass(old_rels, new) ELSE <<>>)
        \o (IF "new_asset" \in NOTIFY_ON THEN new_asset_pass(old_rels, new) ELSE <<>>)
        \o (IF "dl_increase" \in NOTIFY_ON THEN dl_increase_pass(old_rels, new) ELSE <<>>)

(***************************************************************************)
(* The upstream: what the releases endpoint can answer.                    *)
(* Release ids are 1..MaxRel and asset ids 1..MaxAsset; an asset id        *)
(* belongs to one release (upstream asset ids are unique per repository),  *)
(* ids are integers, and a list answer is ordered newest first.            *)
(***************************************************************************)
ReleaseIds == 1..MaxRel
AssetIds == 1..MaxAsset
Counts == 0..MaxDl
Names == {"app.zip", "app.sig"}

OwnerOf(a) == ((a - 1) % MaxRel) + 1
NameOf(a) == IF a % 2 = 1 THEN "app.zip" ELSE "app.sig"
TagOf(r) == <<"v", r>>

RECURSIVE Ascending(_)
Ascending(S) ==
    IF S = {} THEN <<>>
    ELSE LET m == CHOOSE x \in S : \A y \in S : x <= y
         IN  <<m>> \o Ascending(S \ {m})
RECURSIVE Descending(_)
Descending(S) ==
    IF S = {} THEN <<>>
    ELSE LET m == CHOOSE x \in S : \A y \in S : x >= y
         IN  <<m>> \o Descending(S \ {m})

\* the "assets" lists a release with id r can carry
AssetLists(r) ==
    UNION {
        { [i \in DOMAIN Ascending(S) |->
              [id |-> Ascending(S)[i], name |-> NameOf(Ascending(S)[i]),
               download_count |-> c[Ascending(S)[i]]]] : c \in [S -> Counts] }
        : S \in SUBSET {a \in AssetIds : OwnerOf(a) = r} }

Normal == [draft |-> FALSE, prerelease |-> FALSE]
AllFlags == [draft : BOOLEAN, prerelease : BOOLEAN]

ReleaseRecords(r, flags) ==
    { [id |-> r, tag_name |-> TagOf(r), draft |-> f.draft, prerelease |-> f.prerelease,
       assets |-> al] : al \in AssetLists(r), f \in flags }

\* answers of /releases: a list of release records
ListPayloads(flags) ==
    UNION {
        { [shape |-> "list", items |-> [i \in DOMAIN Descending(S) |-> c[Descending(S)[i]]]]
          : c \in { c \in [S -> UNION {ReleaseRecords(r, flags) : r \in S}] :
                       \A r \in S : c[r].id = r } }
        : S \in SUBSET ReleaseIds }

\* answers of /releases/latest: a single release record
LatestPayloads(flags) ==
    { [shape |-> "dict", items |-> <<rel>>] :
          rel \in UNION {ReleaseRecords(r, flags) : r \in ReleaseIds} }

NormalLists == ListPayloads({Normal})
NormalLatest == LatestPayloads({Normal})

NoPattern == [set |-> FALSE, matches |-> {}]
RepoA == <<"o", "/", "a">>
NoData == [shape |-> "list", items |-> <<>>]

\* main_loop before its first statement
LoopStart ==
    /\ shutdown = FALSE
    /\ mpc = "first"
    /\ ri = 1
    /\ slept = 0
    /\ calls = <<>>

\* no event has been returned yet
NothingAnnounced == announced = [key \in {StrKey(r) : r \in ReleaseIds} |-> 0]

\* the locals of process_repo before a call
Idle ==
    /\ pc = "idle"
    /\ repo = RepoA
    /\ state = DefaultState
    /\ is_first_run = TRUE
    /\ status = 0
    /\ new_etag = None
    /\ data = NoData
    /\ snapshot = EmptyDict
    /\ events = <<>>
    /\ ev_i = 0
    /\ attempts = <<>>
    /\ failed = 0
    /\ result = "none"

(***************************************************************************)
(* detect_changes as a function: a previous state and a current snapshot   *)
(* are drawn, and Detect applies it.  A previous state is either the one   *)
(* process_repo holds in memory (asset keys as built) or one read back by  *)
(* load_state.                                                             *)
(***************************************************************************)
Snapshots == {build_snapshot(p) : p \in NormalLists}
PreviousStates ==
    LET built == {[etag |-> None, releases |-> s] : s \in Snapshots}
    IN  built \cup {json_loads(json_dumps(st)) : st \in built}

InitDetect ==
    /\ REPOS = <<RepoA>>
    /\ POLL_INTERVAL = 0
    /\ LoopStart
    /\ NothingAnnounced
    /\ NOTIFY_ON \in SUBSET Kinds
    /\ SKIP_EXISTING_ON_INIT = TRUE
    /\ INCLUDE_PRERELEASE = TRUE
    /\ INCLUDE_DRAFT = FALSE
    /\ ONLY_LATEST = FALSE
    /\ inc_re = NoPattern
    /\ exc_re = NoPattern
    /\ files = [p \in {_state_path(RepoA)} |-> NoFile]
    /\ pc = "detect"
    /\ repo = RepoA
    /\ state \in PreviousStates
    /\ is_first_run = FALSE
    /\ status = 0
    /\ new_etag = None
    /\ data = NoData
    /\ snapshot \in Snapshots
    /\ events = <<>>
    /\ ev_i = 0
    /\ attempts = <<>>
    /\ failed = 0
    /\ result = "none"

Detect ==
    /\ pc = "detect"
    /\ events' = detect_changes(state, snapshot)
    /\ pc' = "detected"
    /\ UNCHANGED <<config, files, repo, state, is_first_run, status, new_etag, data,
                   snapshot, ev_i, attempts, failed, result>>

NextDetect == Detect /\ UNCHANGED <<loop, announced>>
SpecDetect == InitDetect /\ [][NextDetect]_vars

(***************************************************************************)
(* process_repo, as the steps between its external calls:                  *)
(*   Load          load_state, is_first_run, and the request is sent       *)
(*   FetchRaises   fetch_releases raises (HTTP status >= 400, a network    *)
(*                 error, a body that is no JSON): logged, return          *)
(*   FetchNotModified   status 304: logged, return                         *)
(*   FetchOk       a payload: build_snapshot, then the first-run baseline  *)
(*                 or detect_changes                                       *)
(*   Deliver       one iteration of "for ev in events"; the last one goes  *)
(*                 on to save_state                                        *)
(***************************************************************************)
Failures == {"rate_limit", "http_error", "error"}

\* faulty variant: a first run is recognised by the missing cache token
IsFirstRun_ByEtag(st) == st.etag = None

\* is_first_run = not state.get("releases")
IsFirstRun(st) == st.releases = EmptyDict

\* faulty variant: the cache token of the previous state is kept
Updated_KeepsEtag(st, etag, snap) == [st EXCEPT !.releases = snap]

\* state["etag"] = new_etag; state["releases"] = snapshot
Updated(st, etag, snap) == [st EXCEPT !.etag = etag, !.releases = snap]

\* the answers the upstream can give to the request of this configuration
Payloads == IF ONLY_LATEST THEN NormalLatest ELSE NormalLists

Load(r) ==
    /\ pc \in {"idle", "done"}
    /\ pc' = "fetch"
    /\ repo' = r
    /\ state' = load_state(files, r)
    /\ is_first_run' = IsFirstRun(load_state(files, r))
    /\ status' = 0
    /\ new_etag' = None
    /\ data' = NoData
    /\ snapshot' = EmptyDict
    /\ events' = <<>>
    /\ ev_i' = 0
    /\ attempts' = <<>>
    /\ failed' = 0
    /\ result' = "none"
    /\ UNCHANGED <<config, files>>

\* faulty variant: a failed fetch drops the persisted record
FetchRaises_ResetsState(kind) ==
    /\ pc = "fetch"
    /\ pc' = "done"
    /\ result' = kind
    /\ files' = save_state(files, repo, DefaultState)
    /\ UNCHANGED <<config, repo, state, is_first_run, status, new_etag, data,
                   snapshot, events, ev_i, attempts, failed>>

FetchRaises(kind) ==
    /\ pc = "fetch"
    /\ pc' = "done"
    /\ result' = kind
    /\ UNCHANGED <<config, files, repo, state, is_first_run, status, new_etag, data,
                   snapshot, events, ev_i, attempts, failed>>

\* faulty variant: a 304 answer refreshes the persisted cache token
FetchNotModified_SavesEtag(etag) ==
    /\ pc = "fetch"
    /\ status' = 304
    /\ new_etag' = etag
    /\ pc' = "done"
    /\ result' = "not_modified"
    /\ state' = [state EXCEPT !.etag = etag]
    /\ files' = save_state(files, repo, [state EXCEPT !.etag = etag])
    /\ UNCHANGED <<config, repo, is_first_run, data, snapshot, events,
                   ev_i, attempts, failed>>

FetchNotModified(etag) ==
    /\ pc = "fetch"
    /\ status' = 304
    /\ new_etag' = etag
    /\ pc' = "done"
    /\ result' = "not_modified"
    /\ UNCHANGED <<config, files, repo, state, is_first_run, data, snapshot, events,
                   ev_i, attempts, failed>>

FetchOk(etag, payload) ==
    LET snap == build_snapshot(payload)
        evs == detect_changes(state, snap)
    IN  /\ pc = "fetch"
        /\ status' = 200
        /\ new_etag' = etag
        /\ data' = payload
        /\ snapshot' = snap
        /\ IF is_first_run /\ SKIP_EXISTING_ON_INIT
           THEN /\ events' = <<>>
                /\ state' = Updated(state, etag, snap)
                /\ files' = save_state(files, repo, Updated(state, etag, snap))
                /\ result' = "baseline"
                /\ pc' = "done"
                /\ ev_i' = 0
           ELSE /\ events' = evs
                /\ IF evs = <<>>
                   THEN /\ state' = Updated(state, etag, snap)
                        /\ files' = save_state(files, repo, Updated(state, etag, snap))
                        /\ result' = "saved"
                        /\ pc' = "done"
                        /\ ev_i' = 0
                   ELSE /\ pc' = "notify"
                        /\ ev_i' = 1
                        /\ UNCHANGED <<state, files, result>>
        /\ UNCHANGED <<config, repo, is_first_run, attempts, failed>>

\* faulty variant: a delivery that raises ends the loop
Deliver_StopsOnFailure(raises) ==
    /\ pc = "notify"
    /\ attempts' = Append(attempts, events[ev_i])
    /\ failed' = IF raises THEN failed + 1 ELSE failed
    /\ IF ev_i < Len(events) /\ ~raises
       THEN /\ ev_i' = ev_i + 1
            /\ UNCHANGED <<pc, state, files, result>>
       ELSE /\ state' = Updated(state, new_etag, snapshot)
            /\ files' = save_state(files, repo, Updated(state, new_etag, snapshot))
            /\ result' = "saved"
            /\ pc' = "done"
            /\ UNCHANGED ev_i
    /\ UNCHANGED <<config, repo, is_first_run, status, new_etag, data, snapshot, events>>

\* format_and_send_event(repo, ev) inside try/except Exception
Deliver(raises) ==
    /\ pc = "notify"
    /\ attempts' = Append(attempts, events[ev_i])
    /\ failed' = IF raises THEN failed + 1 ELSE failed
    /\ IF ev_i < Len(events)
       THEN /\ ev_i' = ev_i + 1
            /\ UNCHANGED <<pc, state, files, result>>
       ELSE /\ state' = Updated(state, new_etag, snapshot)
            /\ files' = save_state(files, repo, Updated(state, new_etag, snapshot))
            /\ result' = "saved"
            /\ pc' = "done"
            /\ UNCHANGED ev_i
    /\ UNCHANGED <<config, repo, is_first_run, status, new_etag, data, snapshot, events>>

Init ==
    /\ REPOS = <<RepoA>>
    /\ POLL_INTERVAL = 0
    /\ LoopStart
    /\ NothingAnnounced
    /\ NOTIFY_ON \in {Kinds, {"new_release"}}
    /\ SKIP_EXISTING_ON_INIT \in BOOLEAN
    /\ INCLUDE_PRERELEASE = TRUE
    /\ INCLUDE_DRAFT = FALSE
    /\ ONLY_LATEST \in BOOLEAN
    /\ inc_re = NoPattern
    /\ exc_re = NoPattern
    /\ files \in [{_state_path(REPOS[i]) : i \in DOMAIN REPOS} -> {NoFile, Truncated}]
    /\ Idle

\* process_repo called in any order, main_loop left aside
Next ==
    \/ \E i \in DOMAIN REPOS : Load(REPOS[i]) /\ UNCHANGED <<loop, announced>>
    \/ \E kind \in Failures : FetchRaises(kind) /\ UNCHANGED <<loop, announced>>
    \/ \E etag \in ETags \cup {None} : FetchNotModified(etag) /\ UNCHANGED <<loop, announced>>
    \/ \E etag \in ETags \cup {None}, payload \in Payloads :
           FetchOk(etag, payload) /\ UNCHANGED <<loop, announced>>
    \/ \E raises \in BOOLEAN : Deliver(raises) /\ UNCHANGED <<loop, announced>>

Spec == Init /\ [][Next]_vars

(***************************************************************************)
(* build_snapshot under every filter configuration: the first call of      *)
(* process_repo with an empty state directory, after its Load, answered    *)
(* with any payload (releases of every draft / prerelease flag).  The      *)
(* filters do not read download counts, which are all 0 here, and          *)
(* deliveries that raise are left to Spec.                                 *)
(***************************************************************************)
\* a compiled pattern, by the asset names it finds a match in
Patterns == {NoPattern} \cup {[set |-> TRUE, matches |-> {n}] : n \in Names}
NotDownloaded(p) ==
    \A i \in DOMAIN p.items :
        \A j \in DOMAIN p.items[i].assets : p.items[i].assets[j].download_count = 0
FlaggedLists == {p \in ListPayloads(AllFlags) : NotDownloaded(p)}
FlaggedLatest == {p \in LatestPayloads(AllFlags) : NotDownloaded(p)}
FlaggedPayloads == IF ONLY_LATEST THEN FlaggedLatest ELSE FlaggedLists

InitBuild ==
    /\ REPOS = <<RepoA>>
    /\ POLL_INTERVAL = 0
    /\ LoopStart
    /\ NothingAnnounced
    /\ NOTIFY_ON = {"new_release"}
    /\ SKIP_EXISTING_ON_INIT \in BOOLEAN
    /\ INCLUDE_PRERELEASE \in BOOLEAN
    /\ INCLUDE_DRAFT \in BOOLEAN
    /\ ONLY_LATEST \in BOOLEAN
    /\ inc_re \in Patterns
    /\ exc_re \in Patterns
    /\ files = [p \in {_state_path(RepoA)} |-> NoFile]
    /\ pc = "fetch"
    /\ repo = RepoA
    /\ state = DefaultState
    /\ is_first_run = TRUE
    /\ status = 0
    /\ new_etag = None
    /\ data = NoData
    /\ snapshot = EmptyDict
    /\ events = <<>>
    /\ ev_i = 0
    /\ attempts = <<>>
    /\ failed = 0
    /\ result = "none"

NextBuild ==
    \/ \E etag \in ETags, payload \in FlaggedPayloads :
           FetchOk(etag, payload) /\ UNCHANGED <<loop, announced>>
    \/ \E raises \in {FALSE} : Deliver(raises) /\ UNCHANGED <<loop, announced>>

SpecBuild == InitBuild /\ [][NextBuild]_vars

(***************************************************************************)
(* main_loop over two repositories.  The steps of a process_repo call are  *)
(* the actions above; main_loop waits for the call to return.  A signal    *)
(* can arrive between any two steps.                                       *)
(*   mpc = "first"   in the for loop of the first pass                     *)
(*         "while"   at the test of "while not shutdown"                   *)
(*         "pass"    in the for loop of a later pass                       *)
(*         "sleep"   in the one-second sleep loop                          *)
(*         "exit"    main_loop has returned                                *)
(***************************************************************************)
RepoB == <<"o", "/", "b">>
RepoC == <<"o", "/", "a", "_", "_", "b">>
RepoD == <<"o", "_", "_", "a", "/", "b">>

\* the answers the upstream gives in this specification: at most one release,
\* without assets
MainPayloads ==
    {p \in NormalLists : Len(p.items) <= 1 /\ \A i \in DOMAIN p.items : p.items[i].assets = <<>>}

Returned == pc \in {"idle", "done"}

\* faulty variant: the flag is not looked at before the call
CallProcessRepo_NoCheck ==
    /\ mpc \in {"first", "pass"}
    /\ ri <= Len(REPOS)
    /\ Load(REPOS[ri])
    /\ ri' = ri + 1
    /\ calls' = IF Len(calls) < MaxCalls THEN Append(calls, REPOS[ri]) ELSE calls
    /\ UNCHANGED <<shutdown, mpc, slept, announced>>

\* for repo in REPOS: if shutdown: break; process_repo(repo)
CallProcessRepo ==
    /\ mpc \in {"first", "pass"}
    /\ ri <= Len(REPOS)
    /\ ~shutdown
    /\ Load(REPOS[ri])
    /\ ri' = ri + 1
    /\ calls' = IF Len(calls) < MaxCalls THEN Append(calls, REPOS[ri]) ELSE calls
    /\ UNCHANGED <<shutdown, mpc, slept, announced>>

\* faulty variant: the loop is entered whatever POLL_INTERVAL is
FirstPassDone_AlwaysLoops ==
    /\ mpc = "first"
    /\ Returned
    /\ shutdown \/ ri > Len(REPOS)
    /\ mpc' = "while"
    /\ UNCHANGED <<config, files, locals, announced, shutdown, ri, slept, calls>>

\* the first for loop ends (exhausted, or break); if POLL_INTERVAL > 0: ... else: return
FirstPassDone ==
    /\ mpc = "first"
    /\ Returned
    /\ shutdown \/ ri > Len(REPOS)
    /\ mpc' = IF POLL_INTERVAL > 0 THEN "while" ELSE "exit"
    /\ UNCHANGED <<config, files, locals, announced, shutdown, ri, slept, calls>>

\* while not shutdown:
WhileTest ==
    /\ mpc = "while"
    /\ IF shutdown
       THEN mpc' = "exit" /\ ri' = ri
       ELSE mpc' = "pass" /\ ri' = 1
    /\ UNCHANGED <<config, files, locals, announced, shutdown, slept, calls>>

\* the for loop of a pass ends (exhausted, or break); slept = 0
PassDone ==
    /\ mpc = "pass"
    /\ Returned
    /\ shutdown \/ ri > Len(REPOS)
    /\ mpc' = "sleep"
    /\ slept' = 0
    /\ UNCHANGED <<config, files, locals, announced, shutdown, ri, calls>>

\* while not shutdown and slept < POLL_INTERVAL: time.sleep(1); slept += 1
SleepStep ==
    /\ mpc = "sleep"
    /\ ~shutdown /\ slept < POLL_INTERVAL
    /\ slept' = slept + 1
    /\ UNCHANGED <<config, files, locals, announced, shutdown, mpc, ri, calls>>

SleepDone ==
    /\ mpc = "sleep"
    /\ shutdown \/ slept >= POLL_INTERVAL
    /\ mpc' = "while"
    /\ UNCHANGED <<config, files, locals, announced, shutdown, ri, slept, calls>>

\* _sig_handler: shutdown = True
Signal ==
    /\ ~shutdown
    /\ mpc # "exit"
    /\ shutdown' = TRUE
    /\ UNCHANGED <<config, files, locals, announced, mpc, ri, slept, calls>>

InitMain ==
    /\ REPOS \in {<<RepoA, RepoB>>, <<RepoC, RepoD>>}
    /\ POLL_INTERVAL \in 0..MaxPoll
    /\ LoopStart
    /\ NothingAnnounced
    /\ NOTIFY_ON = {"new_release"}
    /\ SKIP_EXISTING_ON_INIT = FALSE
    /\ INCLUDE_PRERELEASE = TRUE
    /\ INCLUDE_DRAFT = FALSE
    /\ ONLY_LATEST = FALSE
    /\ inc_re = NoPattern
    /\ exc_re = NoPattern
    /\ files = [p \in {_state_path(REPOS[i]) : i \in DOMAIN REPOS} |-> NoFile]
    /\ Idle

\* the steps the process takes by itself
Program ==
    \/ CallProcessRepo
    \/ FirstPassDone
    \/ WhileTest
    \/ PassDone
    \/ SleepStep
    \/ SleepDone
    \/ \E kind \in Failures : FetchRaises(kind) /\ UNCHANGED <<loop, announced>>
    \/ \E etag \in ETags : FetchNotModified(etag) /\ UNCHANGED <<loop, announced>>
    \/ \E etag \in ETags, payload \in MainPayloads : FetchOk(etag, payload) /\ UNCHANGED <<loop, announced>>
    \/ \E raises \in BOOLEAN : Deliver(raises) /\ UNCHANGED <<loop, announced>>

NextMain == Program \/ Signal

SpecMain == InitMain /\ [][NextMain]_vars

\* the interpreter keeps running: a step that stays possible is taken (every
\* request has a timeout, every sleep returns); signals are under no
\* obligation to arrive
SpecMainFair == SpecMain /\ WF_vars(Program)

(***************************************************************************)
(* Claims about process_repo (checked under Spec).                         *)
(***************************************************************************)
\* the record save_state writes for a cache token and a payload
RecordOf(etag, payload) ==
    FileOf(json_dumps([etag |-> etag, releases |-> build_snapshot(payload)]))
FileOfRepo == files[_state_path(repo)]
Saved == pc = "done" /\ result \in {"baseline", "saved"}
SnapshotAssets(snap) ==
    UNION {{<<snap[i].k, snap[i].v.assets[j].k>> : j \in DOMAIN snap[i].v.assets}
           : i \in DOMAIN snap}

\* C1: when the loaded state has an empty snapshot, SKIP_EXISTING_ON_INIT is
\* on and the fetch answers with a payload, the call emits no event, attempts
\* no delivery and returns with the record {token of the fetch, snapshot
\* built from the payload} written, whatever the payload holds.
C1_FirstRunBaseline ==
    [][(pc = "fetch" /\ state.releases = EmptyDict /\ SKIP_EXISTING_ON_INIT
            /\ status' = 200) =>
          /\ pc' = "done"
          /\ events' = <<>>
          /\ attempts' = <<>>
          /\ files' = [files EXCEPT ![_state_path(repo)] = RecordOf(new_etag', data')]
      ]_vars

C1_Witness ==
    /\ pc = "done" /\ result = "baseline" /\ SKIP_EXISTING_ON_INIT
    /\ Cardinality(Keys(snapshot)) = 2
    /\ \E ra \in SnapshotAssets(snapshot) :
           Get(Get(snapshot, ra[1]).assets, ra[2]).download_count > 0
    /\ new_etag # None
    /\ events = <<>> /\ attempts = <<>>
    /\ FileOfRepo = RecordOf(new_etag, data)

\* C2: a fetch answered 304 leaves every persisted record as it was, whatever
\* token the answer carries, and the call returns with no event emitted and
\* no delivery attempted.
C2_NotModified ==
    [][(pc = "fetch" /\ status' = 304) =>
          /\ files' = files
          /\ pc' = "done"
          /\ events' = <<>>
          /\ attempts' = <<>>
      ]_vars

C2_Witness ==
    /\ pc = "done" /\ result = "not_modified" /\ status = 304
    /\ state.releases # EmptyDict
    /\ new_etag # state.etag
    /\ load_state(files, repo) = state
    /\ events = <<>> /\ attempts = <<>>

\* C3: a fetch that fails (HTTP status >= 400, rate limit, network error,
\* unparseable body) leaves every persisted record as it was, the call
\* returns normally with no event emitted and no delivery attempted, and the
\* next call for the repository loads the same state (so presents the same
\* cache token).
C3_FetchFailure ==
    [][/\ (pc = "fetch" /\ result' \in Failures) =>
             /\ files' = files
             /\ pc' = "done"
             /\ events' = <<>>
             /\ attempts' = <<>>
       /\ (pc = "done" /\ result \in Failures /\ pc' = "fetch" /\ repo' = repo) =>
             state' = state
      ]_vars

C3_Witness ==
    /\ pc = "done" /\ result = "rate_limit"
    /\ state.releases # EmptyDict /\ state.etag # None
    /\ FileOfRepo.exists
    /\ load_state(files, repo) = state
    /\ events = <<>> /\ attempts = <<>>

\* C7: load_state after save_state returns the state that was saved, for
\* every state process_repo saves.
C7_RoundTrip ==
    Saved => load_state(files, repo) = state

\* C8: once a call whose fetch answered with a payload has returned, the
\* record of the repository is {token of that fetch, snapshot built from that
\* payload}; such a call ends in no other way, whether or not events were
\* detected and whether or not deliveries failed.
C8_UnconditionalPersist ==
    /\ status = 200 => pc \in {"notify", "done"}
    /\ (pc = "done" /\ status = 200) =>
           /\ result \in {"baseline", "saved"}
           /\ FileOfRepo = RecordOf(new_etag, data)
    /\ (pc = "notify") => (status = 200 /\ ev_i \in 1..Len(events))

C8_Witness ==
    /\ pc = "done" /\ result = "saved" /\ status = 200
    /\ Len(events) >= 2 /\ failed = Len(events)
    /\ new_etag # None
    /\ FileOfRepo = RecordOf(new_etag, data)

\* C9: while the events are delivered, the delivery attempts made so far are
\* the events before the current one, in order; when the call has returned
\* they are all the events, each once and in detection order, whichever of
\* the attempts raised.
C9_DeliveryIsolation ==
    /\ pc = "notify" =>
           /\ ev_i \in 1..Len(events)
           /\ attempts = SubSeq(events, 1, ev_i - 1)
    /\ (pc = "done" /\ result = "saved") => attempts = events
    /\ failed \in 0..Len(attempts)
    /\ pc \in {"idle", "fetch", "notify", "done"}

C9_Witness ==
    /\ pc = "done" /\ result = "saved"
    /\ Len(events) >= 3
    /\ failed \in 1..(Len(events) - 1)
    /\ attempts = events

\* the record of the repository is missing or does not parse
Unreadable(f) == ~(f.exists /\ f.parses)
NewReleaseEvents(evs, key) ==
    {i \in DOMAIN evs : evs[i].type = "new_release" /\ evs[i].rel_id = key}

\* C14: when the record of the repository is missing or does not parse,
\* load_state returns the default empty state, and the call goes on as a
\* first run: with SKIP_EXISTING_ON_INIT on, a fetched payload is persisted
\* as the baseline with no event and no delivery; with it off (new_release
\* of interest), every release of the snapshot is reported as new.
C14_CorruptionFallback ==
    [][/\ (pc # "fetch" /\ pc' = "fetch" /\ Unreadable(files[_state_path(repo')])) =>
             /\ state' = DefaultState
             /\ is_first_run'
       /\ (pc = "fetch" /\ status' = 200 /\ Unreadable(FileOfRepo)) =>
             IF SKIP_EXISTING_ON_INIT
             THEN /\ pc' = "done" /\ result' = "baseline"
                  /\ events' = <<>> /\ attempts' = <<>>
                  /\ files' = [files EXCEPT ![_state_path(repo)] = RecordOf(new_etag', data')]
             ELSE "new_release" \in NOTIFY_ON =>
                      \A key \in Keys(snapshot') :
                          Cardinality(NewReleaseEvents(events', key)) = 1
      ]_vars

C14_Witness ==
    /\ pc = "notify" /\ ~SKIP_EXISTING_ON_INIT
    /\ FileOfRepo = Truncated
    /\ state = DefaultState /\ is_first_run
    /\ Cardinality(Keys(snapshot)) = 2
    /\ \A key \in Keys(snapshot) : Cardinality(NewReleaseEvents(events, key)) = 1

\* C19: when the record of the repository is the one a call persisted for a
\* payload holding at least one asset, and the fetch of the next call answers
\* with the same payload, that call detects no event.
C19_IdempotentTicks ==
    [][(/\ pc = "fetch" /\ status' = 200
        /\ FileOfRepo.exists /\ FileOfRepo.parses
        /\ state = load_state(files, repo)
        /\ FileOfRepo.doc.releases = DumpsReleases(build_snapshot(data'))
        /\ SnapshotAssets(build_snapshot(data')) # {}) =>
           events' = <<>>
      ]_vars

\* C20: with SKIP_EXISTING_ON_INIT on and new_release of interest, when the
\* record of the repository is a persisted baseline with an empty snapshot
\* and the fetch answers with a payload holding releases, the call returns a
\* new_release event for each release of the snapshot.
C20_ReleaseAfterEmptyBaseline ==
    [][(/\ pc = "fetch" /\ status' = 200
        /\ SKIP_EXISTING_ON_INIT /\ "new_release" \in NOTIFY_ON
        /\ FileOfRepo.exists /\ FileOfRepo.parses
        /\ FileOfRepo.doc.releases = <<>>
        /\ snapshot' # EmptyDict) =>
           \A key \in Keys(snapshot') :
               Cardinality(NewReleaseEvents(events', key)) = 1
      ]_vars

(***************************************************************************)
(* Claims about detect_changes (checked under SpecDetect).                 *)
(***************************************************************************)
EventsOf(type) == {i \in DOMAIN events : events[i].type = type}
EventsAt(type, rel_id, asset_id) ==
    {i \in EventsOf(type) : events[i].rel_id = rel_id /\ events[i].asset_id = asset_id}
\* the (release key, asset key) pairs of the current snapshot
CurrentAssets ==
    UNION {{<<snapshot[i].k, snapshot[i].v.assets[j].k>> : j \in DOMAIN snapshot[i].v.assets}
           : i \in DOMAIN snapshot}
InPrevious(rel_id, asset_id) ==
    /\ Has(state.releases, rel_id)
    /\ Has(Get(state.releases, rel_id).assets, asset_id)
CurrentCount(rel_id, asset_id) ==
    Get(Get(snapshot, rel_id).assets, asset_id).download_count

\* C4 as stated: with an empty previous snapshot and all three kinds of
\* interest, detect_changes returns one new_release event per release key of
\* the current snapshot and nothing else (no new_asset, no dl_increase).
C4_EmptyPreviousOnlyNewRelease ==
    (pc = "detected" /\ state.releases = EmptyDict /\ NOTIFY_ON = Kinds) =>
        /\ \A key \in Keys(snapshot) :
               Cardinality(EventsAt("new_release", key, NoKey)) = 1
        /\ EventsOf("new_asset") = {}
        /\ EventsOf("dl_increase") = {}

\* C4 amended: with an empty previous snapshot and all three kinds of
\* interest, detect_changes returns one new_release event per release key of
\* the current snapshot, no new_asset event, and one dl_increase event (from 0
\* to the count) for exactly the assets whose download count is positive.
C4_EmptyPrevious ==
    (pc = "detected" /\ state.releases = EmptyDict /\ NOTIFY_ON = Kinds) =>
        /\ Cardinality(EventsOf("new_release")) = Cardinality(Keys(snapshot))
        /\ \A key \in Keys(snapshot) :
               Cardinality(EventsAt("new_release", key, NoKey)) = 1
        /\ EventsOf("new_asset") = {}
        /\ \A i \in EventsOf("dl_increase") :
               /\ <<events[i].rel_id, events[i].asset_id>> \in CurrentAssets
               /\ events[i].from = 0
               /\ events[i].to = CurrentCount(events[i].rel_id, events[i].asset_id)
        /\ \A ra \in CurrentAssets :
               Cardinality(EventsAt("dl_increase", ra[1], ra[2])) =
                   (IF CurrentCount(ra[1], ra[2]) > 0 THEN 1 ELSE 0)

C4_Witness ==
    /\ pc = "detected" /\ state.releases = EmptyDict /\ NOTIFY_ON = Kinds
    /\ Cardinality(Keys(snapshot)) = 2
    /\ Cardinality(EventsOf("new_release")) = 2
    /\ \E ra \in CurrentAssets : CurrentCount(ra[1], ra[2]) = 0
    /\ \E ra \in CurrentAssets : CurrentCount(ra[1], ra[2]) > 0
    /\ Cardinality(EventsOf("dl_increase")) = 1

\* C5 as stated: every dl_increase event refers to a release present in both
\* snapshots and to an asset present in both asset maps of that release.
C5_DlIncreaseOnlyForKnownAssets ==
    pc = "detected" =>
        \A i \in EventsOf("dl_increase") :
            /\ <<events[i].rel_id, events[i].asset_id>> \in CurrentAssets
            /\ InPrevious(events[i].rel_id, events[i].asset_id)

\* C5 amended: every dl_increase event refers to a release of the current
\* snapshot and to an asset of that release's current asset map; an asset that
\* is absent from the previous release (or whose release is absent from the
\* previous snapshot) produces a dl_increase event exactly when its download
\* count is positive, and that event counts from 0.
C5_DlIncrease ==
    pc = "detected" =>
        /\ \A i \in EventsOf("dl_increase") :
               <<events[i].rel_id, events[i].asset_id>> \in CurrentAssets
        /\ "dl_increase" \in NOTIFY_ON =>
               \A ra \in CurrentAssets :
                   ~InPrevious(ra[1], ra[2]) =>
                       /\ Cardinality(EventsAt("dl_increase", ra[1], ra[2])) =
                              (IF CurrentCount(ra[1], ra[2]) > 0 THEN 1 ELSE 0)
                       /\ \A i \in EventsAt("dl_increase", ra[1], ra[2]) :
                              events[i].from = 0 /\ events[i].to = CurrentCount(ra[1], ra[2])

C5_Witness ==
    /\ pc = "detected"
    /\ state.releases # EmptyDict
    /\ \E i \in EventsOf("dl_increase") :
           /\ Has(state.releases, events[i].rel_id)
           /\ ~InPrevious(events[i].rel_id, events[i].asset_id)
    /\ \E ra \in CurrentAssets :
           /\ ~InPrevious(ra[1], ra[2])
           /\ CurrentCount(ra[1], ra[2]) = 0
           /\ EventsAt("dl_increase", ra[1], ra[2]) = {}

\* C6: detect_changes of a snapshot against itself returns no event, for
\* every set of interested kinds.
C6_Idempotent ==
    (pc = "detected" /\ state.releases = snapshot) => events = <<>>

C6_Witness ==
    /\ pc = "detected" /\ state.releases = snapshot /\ NOTIFY_ON = Kinds
    /\ Cardinality(Keys(snapshot)) = 2
    /\ \E ra \in CurrentAssets : CurrentCount(ra[1], ra[2]) > 0
    /\ events = <<>>

\* C10: with new_asset of interest, detect_changes returns exactly one
\* new_asset event for each (release, asset) whose release key is in both
\* snapshots and whose asset key is in the current asset map of the release
\* but not in the previous one, and no other new_asset event.
C10_NewAssetPass ==
    (pc = "detected" /\ "new_asset" \in NOTIFY_ON) =>
        /\ \A i \in EventsOf("new_asset") :
               <<events[i].rel_id, events[i].asset_id>> \in CurrentAssets
        /\ \A ra \in CurrentAssets :
               Cardinality(EventsAt("new_asset", ra[1], ra[2])) =
                   (IF Has(state.releases, ra[1]) /\ ~InPrevious(ra[1], ra[2])
                    THEN 1 ELSE 0)

C10_Witness ==
    /\ pc = "detected" /\ "new_asset" \in NOTIFY_ON
    /\ Cardinality(EventsOf("new_asset")) = 1
    /\ \E ra \in CurrentAssets : ~Has(state.releases, ra[1])
    /\ \E ra \in CurrentAssets :
           Has(state.releases, ra[1]) /\ Cardinality(EventsAt("new_asset", ra[1], ra[2])) = 1

\* the events of one kind, in the order detect_changes returned them
OfKind(seq, kind) ==
    LET IsKind(e) == e.type = kind
    IN  SelectSeq(seq, IsKind)

\* C11: detect_changes returns no event whose kind is outside NOTIFY_ON, and
\* the events of a kind that is in NOTIFY_ON are the events of that kind's
\* pass over the two snapshots, in the same order, whichever other kinds are
\* in NOTIFY_ON.
C11_InterestFilter ==
    pc = "detected" =>
        /\ \A i \in DOMAIN events : events[i].type \in NOTIFY_ON
        /\ "new_release" \in NOTIFY_ON =>
               OfKind(events, "new_release") = new_release_pass(state.releases, snapshot)
        /\ "new_asset" \in NOTIFY_ON =>
               OfKind(events, "new_asset") = new_asset_pass(state.releases, snapshot)
        /\ "dl_increase" \in NOTIFY_ON =>
               OfKind(events, "dl_increase") = dl_increase_pass(state.releases, snapshot)

C11_Witness ==
    /\ pc = "detected" /\ NOTIFY_ON = {"new_release", "dl_increase"}
    /\ EventsOf("new_release") # {} /\ EventsOf("dl_increase") # {}
    /\ EventsOf("new_asset") = {}
    /\ new_asset_pass(state.releases, snapshot) # <<>>

\* C12: every dl_increase event has to > from >= 0 and delta = to - from > 0,
\* and its to is the download count of the asset in the current snapshot.
C12_DlIncreaseFields ==
    pc = "detected" =>
        \A i \in EventsOf("dl_increase") :
            /\ events[i].to > events[i].from
            /\ events[i].from >= 0
            /\ events[i].delta = events[i].to - events[i].from
            /\ events[i].delta > 0
            /\ <<events[i].rel_id, events[i].asset_id>> \in CurrentAssets
            /\ events[i].to = CurrentCount(events[i].rel_id, events[i].asset_id)

C12_Witness ==
    /\ pc = "detected"
    /\ \E i \in EventsOf("dl_increase") :
           /\ InPrevious(events[i].rel_id, events[i].asset_id)
           /\ events[i].from = 0 /\ events[i].to = MaxDl /\ events[i].delta = MaxDl
    /\ \E i \in EventsOf("dl_increase") :
           ~Has(state.releases, events[i].rel_id)

(***************************************************************************)
(* Claims about build_snapshot (checked under SpecBuild).                  *)
(***************************************************************************)
\* the release summaries of a snapshot and their assets pass the filters
Filtered(snap) ==
    \A i \in DOMAIN snap :
        /\ ~INCLUDE_DRAFT => ~snap[i].v.draft
        /\ ~INCLUDE_PRERELEASE => ~snap[i].v.prerelease
        /\ \A j \in DOMAIN snap[i].v.assets :
               /\ inc_re.set => Search(inc_re, snap[i].v.assets[j].v.name)
               /\ exc_re.set => ~Search(exc_re, snap[i].v.assets[j].v.name)

\* C13: for every payload (one release record or a list of them) and every
\* filter configuration, the snapshot build_snapshot returns holds no draft
\* unless drafts are included, no prerelease unless prereleases are included
\* and no asset whose name fails the include pattern or matches the exclude
\* pattern; and so does the snapshot process_repo persists.
C13_SnapshotFilter ==
    status = 200 =>
        /\ snapshot = build_snapshot(data)
        /\ Filtered(snapshot)
        /\ Saved => /\ FileOfRepo.exists /\ FileOfRepo.parses
                    /\ Filtered(load_state(files, repo).releases)

C13_Witness ==
    /\ Saved /\ result = "saved"
    /\ ~INCLUDE_DRAFT /\ ~INCLUDE_PRERELEASE /\ inc_re.set /\ exc_re.set
    /\ data.shape = "list" /\ Len(data.items) = 2
    /\ data.items[1].draft /\ ~data.items[1].prerelease
    /\ ~data.items[2].draft /\ ~data.items[2].prerelease
    /\ Len(data.items[2].assets) > Len(snapshot[1].v.assets)
    /\ Keys(load_state(files, repo).releases) = {StrKey(data.items[2].id)}

(***************************************************************************)
(* Claims about main_loop (checked under SpecMain and SpecMainFair).       *)
(***************************************************************************)
\* a process_repo call starts with this step
TickStarts == pc # "fetch" /\ pc' = "fetch"

\* C15: for two distinct configured identifiers, no step of a process_repo
\* call for one of them changes the state load_state returns for the other
\* (which is so when _state_path gives them different records).
C15_RepoIsolation ==
    [][\A i \in DOMAIN REPOS :
           REPOS[i] # repo' =>
               load_state(files', REPOS[i]) = load_state(files, REPOS[i])
      ]_vars

\* C16: with POLL_INTERVAL > 0, the first call of every pass of the loop is
\* made after POLL_INTERVAL seconds of sleep since the pass before it, the
\* pass made at start-up included.
C16_SleepBetweenPasses ==
    [][(POLL_INTERVAL > 0 /\ mpc = "pass" /\ ri = 1 /\ TickStarts) =>
           slept = POLL_INTERVAL
      ]_vars

\* C17: once the shutdown flag is set it stays set, no process_repo call
\* starts and no further pass is entered from then on, and main_loop
\* returns, wherever the signal arrives (in a call of the first pass or of a
\* later pass, between calls, or in the sleep).
C17_CooperativeShutdown ==
    /\ [][shutdown =>
             /\ shutdown'
             /\ ~TickStarts
             /\ (mpc # "pass" => mpc' # "pass")
             /\ slept' <= slept
         ]_vars
    /\ (shutdown ~> mpc = "exit")

C17_Witness ==
    /\ mpc = "exit" /\ shutdown
    /\ POLL_INTERVAL = MaxPoll /\ slept \in 1..(POLL_INTERVAL - 1)
    /\ Len(calls) = MaxCalls
    /\ Returned

\* C18: with POLL_INTERVAL = 0 and no signal, main_loop never sleeps or
\* enters the loop, the calls made so far are the first repositories of
\* REPOS in order, each once, the call in progress is the last one started,
\* and main_loop returns, having called process_repo for all of REPOS.
C18_SinglePass ==
    /\ []((POLL_INTERVAL = 0 /\ ~shutdown) =>
             /\ mpc \in {"first", "exit"}
             /\ slept = 0
             /\ calls = SubSeq(REPOS, 1, ri - 1)
             /\ ~Returned => repo = calls[Len(calls)]
             /\ mpc = "exit" => (calls = REPOS /\ Returned))
    /\ ((POLL_INTERVAL = 0) ~> (mpc = "exit"))

C18_Witness ==
    /\ POLL_INTERVAL = 0 /\ ~shutdown
    /\ mpc = "exit" /\ pc = "done"
    /\ Len(REPOS) = 2 /\ calls = REPOS
    /\ slept = 0

(***************************************************************************)
(* process_repo called again and again for one repository, with a count of *)
(* the new_release events its calls have returned for each release.  The   *)
(* state directory starts empty and is written by save_state only; the     *)
(* releases carry no assets.                                               *)
(***************************************************************************)
AnnouncePayloads ==
    {p \in Payloads : \A i \in DOMAIN p.items : p.items[i].assets = <<>>}

\* the counts after a call has returned the events evs (2 stands for "more than once")
Announce(evs) ==
    [key \in DOMAIN announced |->
        LET n == announced[key] + Cardinality(NewReleaseEvents(evs, key))
        IN  IF n > 2 THEN 2 ELSE n]

InitAnnounce ==
    /\ REPOS = <<RepoA>>
    /\ POLL_INTERVAL = 0
    /\ LoopStart
    /\ NothingAnnounced
    /\ NOTIFY_ON = {"new_release"}
    /\ SKIP_EXISTING_ON_INIT \in BOOLEAN
    /\ INCLUDE_PRERELEASE = TRUE
    /\ INCLUDE_DRAFT = FALSE
    /\ ONLY_LATEST \in BOOLEAN
    /\ inc_re = NoPattern
    /\ exc_re = NoPattern
    /\ files = [p \in {_state_path(RepoA)} |-> NoFile]
    /\ Idle

NextAnnounce ==
    \/ Load(RepoA) /\ UNCHANGED <<loop, announced>>
    \/ \E kind \in Failures : FetchRaises(kind) /\ UNCHANGED <<loop, announced>>
    \/ \E etag \in ETags : FetchNotModified(etag) /\ UNCHANGED <<loop, announced>>
    \/ \E etag \in ETags, payload \in AnnouncePayloads :
           FetchOk(etag, payload) /\ announced' = Announce(events') /\ UNCHANGED loop
    \/ \E raises \in BOOLEAN : Deliver(raises) /\ UNCHANGED <<loop, announced>>

SpecAnnounce == InitAnnounce /\ [][NextAnnounce]_vars

\* C21: over any sequence of process_repo calls for one repository (answers
\* 200, 304 or failures in any order, the record never damaged), the calls
\* return at most one new_release event for each release id.
C21_NoDuplicateAnnouncement ==
    \A key \in DOMAIN announced : announced[key] <= 1

====
